---- MODULE Spec2Model ----
(***************************************************************************)
(* Model of maltose's outbound request executor                            *)
(* (net/mclient/mclient_request.go): one DoRequest call of one Request,    *)
(* with its retry loop, the per-attempt body resolution, the middleware    *)
(* chain and the terminal transport call (specification Spec); the pure    *)
(* parts of the executor on their own inputs (SpecURL, SpecPredicate);     *)
(* Send and the builder methods (SpecSend); two Requests of one client     *)
(* composing their chains concurrently (SpecShared); and the inbound       *)
(* handler dispatch of net/mhttp/mhttp_handler.go (SpecHandler,            *)
(* SpecSignature).  Every specification leaves the variables of the        *)
(* others at their idle values.                                            *)
(*                                                                         *)
(* Conventions                                                             *)
(*   - a *Response is an index into `responses`; 0 is the nil pointer.     *)
(*   - an error is a string; "nil" is the nil error.                       *)
(*   - a status of 0 stands for a nil *http.Response.                      *)
(*   - a body stream is an index into `streams`, whose entry is what is    *)
(*     still unread of it; 0 is the nil Body.                              *)
(***************************************************************************)
EXTENDS Integers, Sequences, FiniteSets, TLC

\* ---------------------------------------------------------------------
\* Bounds of the model
\* ---------------------------------------------------------------------
MaxRetry == 2
MaxBodyLen == 2
MaxSlashes == 2
MaxFields == 2
MaxRuns == 2
MaxSpare == 1

\* ---------------------------------------------------------------------
\* Inputs
\* ---------------------------------------------------------------------
RetryCounts == (0 - 2)..MaxRetry
RetryIntervals == {0, 1}
Statuses == {200, 404, 429, 500}
Bytes(n) == [i \in 1..n |-> i]
NoData == [set |-> FALSE, bytes |-> <<>>]
DataBodies == {NoData} \cup {[set |-> TRUE, bytes |-> Bytes(n)] : n \in 1..MaxBodyLen}
FormEncodings == {<<>>, <<7>>}
ClientMiddlewareLists == {<<>>, <<"A">>}
RequestMiddlewareLists == {<<>>, <<"B">>, <<"B", "C">>}
NilPair == [resp |-> 0, err |-> "nil"]

VARIABLES
    retryCount,         \* Request.retryCount
    retryInterval,      \* Request.retryInterval
    retryCondition,     \* Request.retryCondition: "nil" or "custom"
    clientMiddlewares,  \* Client.middlewares
    middlewares,        \* Request.middlewares
    formParams,         \* Request.formParams, as their URL encoding (<<>> = none)
    data,               \* what Data/SetBody was given before the call, if called
    streams,            \* the readers created so far: what each still holds
    requestBody,        \* Request.Request.Body
    attemptBody,        \* the Body of the http.Request of the current attempt
    ctxDone,            \* the caller's context has been cancelled
    pc,                 \* position of DoRequest
    attempts,           \* DoRequest's local attempts
    resp,               \* DoRequest's local resp
    err,                \* DoRequest's local err
    handler,            \* the composed chain of this attempt, outermost first
    depth,              \* number of middlewares of the chain entered and not returned
    ret,                \* the (response, error) pair travelling up the chain
    events,             \* what the middlewares and the transport saw in this attempt
    timer,              \* time.After of the inter-retry wait: "off", "armed", "fired"
    responses,          \* every Response created during the call
    calls,              \* every transport call: body handed over and outcome
    shortCircuits,      \* number of middleware short-circuits during the call
    parseFailed,        \* ParseResponse of the final response failed
    result,             \* what DoRequest returned
    \* --- URL composition of attemptRequest (SpecURL)
    baseURL,            \* Client.config.BaseURL
    urlPath,            \* the urlPath DoRequest was given
    queryParams,        \* Request.queryParams, as their URL encoding (<<>> = none)
    fullURLs,           \* the fullURL of every attempt so far
    \* --- shouldRetry on its own inputs (SpecPredicate)
    srCondition,        \* Request.retryCondition: "nil" or "custom"
    srStatus,           \* resp.StatusCode; 0 is a nil resp
    srErr,              \* err
    srCustom,           \* what the custom condition answers for (resp, err)
    srResult,           \* what shouldRetry returned, once it has
    \* --- handleRequest of net/mhttp (SpecHandler)
    bindOutcome,        \* what r.ShouldBind(req) returns for the inbound request
    handlerOutcome,     \* what the handler method returns when it is called
    runs,               \* one record per handleRequest run on these inputs
    \* --- checkMethodSignature of net/mhttp (SpecSignature)
    typ,                \* the reflect.Type of the handler method
    checkResult,        \* what checkMethodSignature returned, once it has
    \* --- two Requests of one client composing their chains (SpecShared)
    clientBacking,      \* the backing array of Client.middlewares ("" = unused slot)
    clientLen,          \* len(Client.middlewares)
    reqs,               \* per Request: its middlewares and where its attempt is
    \* --- a Request from NewRequest through its builders to Send (SpecSend)
    httpRequest,        \* the embedded *http.Request (r.Request), nil at first
    sendQuery,          \* keys of r.queryParams
    sendPc,             \* "build", "doing", "returned", "panic"
    doCall,             \* the arguments Send handed to DoRequest and its outcome
    sendResult          \* what Send returned

cfgVars == <<retryCount, retryInterval, retryCondition, clientMiddlewares,
             middlewares, formParams, data>>
requestVars == <<retryCount, retryInterval, retryCondition, clientMiddlewares,
                 middlewares, formParams, data, streams, requestBody,
                 attemptBody, ctxDone, pc, attempts, resp, err, handler, depth,
                 ret, events, timer, responses, calls, shortCircuits,
                 parseFailed, result>>
urlVars == <<baseURL, urlPath, queryParams, fullURLs>>
predVars == <<srCondition, srStatus, srErr, srCustom, srResult>>
handlerVars == <<bindOutcome, handlerOutcome, runs>>
sigVars == <<typ, checkResult>>
sharedVars == <<clientBacking, clientLen, reqs>>
sendVars == <<httpRequest, sendQuery, sendPc, doCall, sendResult>>
\* what the steps of each specification do not touch
outsideRequest == <<urlVars, predVars, handlerVars, sigVars, sharedVars, sendVars>>
outsideURL == <<requestVars, predVars, handlerVars, sigVars, sharedVars, sendVars>>
outsidePredicate == <<requestVars, urlVars, handlerVars, sigVars, sharedVars, sendVars>>
outsideHandler == <<requestVars, urlVars, predVars, sigVars, sharedVars, sendVars>>
outsideSignature == <<requestVars, urlVars, predVars, handlerVars, sharedVars, sendVars>>
outsideShared == <<requestVars, urlVars, predVars, handlerVars, sigVars, sendVars>>
outsideSend == <<requestVars, urlVars, predVars, handlerVars, sigVars, sharedVars>>
vars == <<requestVars, outsideRequest>>

\* ---------------------------------------------------------------------
\* Pure parts of DoRequest and attemptRequest
\* ---------------------------------------------------------------------

\* Variant of MaxAttempts without the lower limit of one attempt.
MaxAttemptsUnclamped(rc) == rc + 1

\* maxAttempts := retryCount + 1; if maxAttempts <= 0 { maxAttempts = 1 }
MaxAttempts(rc) == IF rc + 1 <= 0 THEN 1 ELSE rc + 1

\* Variant of shouldRetry whose default rule retries on every status >= 400.
shouldRetryClientErrors(cond, status, e, customAnswer) ==
    IF cond # "nil" THEN customAnswer
    ELSE IF e # "nil" THEN TRUE
    ELSE IF status # 0 THEN status >= 400
    ELSE FALSE

\* shouldRetry(resp, err); status 0 is a nil *http.Response, customAnswer is
\* what the custom condition answers when one is set.
shouldRetry(cond, status, e, customAnswer) ==
    IF cond # "nil" THEN customAnswer
    ELSE IF e # "nil" THEN TRUE
    ELSE IF status # 0 THEN status >= 500 \/ status = 429
    ELSE FALSE

\* r.Request = req: from here on the Request's Body is the reader that was
\* handed to http.NewRequestWithContext (body), and the copy that line 441
\* stored for the retries is dropped.
RequestBodyAfterSetup(body, copy) == body

\* for i := len(middlewares) - 1; i >= 0; i-- { handler = middlewares[i](handler) }
\* A handler is the sequence of its wrappers, outermost first; <<>> is the
\* terminal handler.
RECURSIVE Wrap(_, _, _)
Wrap(mws, i, h) == IF i < 1 THEN h ELSE Wrap(mws, i - 1, <<mws[i]>> \o h)

\* Variant of Compose that folds from index 0 upwards, which leaves the last
\* middleware outermost.
RECURSIVE WrapForward(_, _, _)
WrapForward(mws, i, h) ==
    IF i > Len(mws) THEN h ELSE WrapForward(mws, i + 1, <<mws[i]>> \o h)

ComposeForward(clientMws, reqMws) ==
    LET mws == clientMws \o reqMws IN WrapForward(mws, 1, <<>>)

\* middlewares := append(r.client.middlewares, r.middlewares...) and the fold
Compose(clientMws, reqMws) ==
    LET mws == clientMws \o reqMws IN Wrap(mws, Len(mws), <<>>)

Event(k, m) == [k |-> k, m |-> m]

\* What a middleware that does not call its delegate may return: a Response
\* of its own, an error, neither, or both.
ShortCircuitOutcomes ==
    {[status |-> s, err |-> "nil"] : s \in {200, 500}}
        \cup {[status |-> 0, err |-> "mw"], [status |-> 0, err |-> "nil"],
              [status |-> 200, err |-> "mw"]}

\* What client.Do may return: a response with some status, or an error, which
\* may be the context's once the context is cancelled.
DoOutcomes(cancelled) ==
    {[status |-> s, err |-> "nil"] : s \in Statuses}
        \cup {[status |-> 0, err |-> "transport"]}
        \cup (IF cancelled THEN {[status |-> 0, err |-> "cancel"]} ELSE {})

\* &Response{Response: httpResp}
NewResponse(status, by) == [status |-> status, closed |-> 0, by |-> by]

\* resp.Close(), as DoRequest invokes it
Close(rs, id) == [rs EXCEPT ![id].closed = @ + 1]

\* Variant of CloseBeforeRetry that drops the response without closing it.
DropBeforeRetry(rs, id) == rs

\* if resp != nil { resp.Close(); resp = nil }
CloseBeforeRetry(rs, id) == IF id # 0 THEN Close(rs, id) ELSE rs

\* Variant of CloseOnParseError that leaves the response open.
LeaveOpenOnParseError(rs, id) == rs

\* if err := resp.ParseResponse(); err != nil { resp.Close(); return nil, err }
CloseOnParseError(rs, id) == Close(rs, id)

\* Variant of WaitAborted that reports the previous attempt's error.
WaitAbortedWithPreviousError(prevErr) == [resp |-> 0, err |-> prevErr]

\* case <-ctx.Done(): return nil, ctx.Err()
WaitAborted(prevErr) == [resp |-> 0, err |-> "cancel"]

\* The outcomes of ParseResponse: TRUE is a nil error.
ParseOutcomes == BOOLEAN

\* ---------------------------------------------------------------------
\* Idle values: what a specification leaves the other parts' variables at
\* ---------------------------------------------------------------------
RequestIdle ==
    /\ retryCount = 0 /\ retryInterval = 0 /\ retryCondition = "nil"
    /\ clientMiddlewares = <<>> /\ middlewares = <<>>
    /\ formParams = <<>> /\ data = NoData
    /\ streams = <<>> /\ requestBody = 0 /\ attemptBody = 0
    /\ ctxDone = FALSE /\ pc = "idle" /\ attempts = 0
    /\ resp = 0 /\ err = "nil"
    /\ handler = <<>> /\ depth = 0 /\ ret = NilPair /\ events = <<>>
    /\ timer = "off" /\ responses = <<>> /\ calls = <<>>
    /\ shortCircuits = 0 /\ parseFailed = FALSE /\ result = NilPair

URLIdle ==
    baseURL = <<>> /\ urlPath = <<>> /\ queryParams = <<>> /\ fullURLs = <<>>

NotCalled == [done |-> FALSE, value |-> FALSE]

PredicateIdle ==
    /\ srCondition = "nil" /\ srStatus = 0 /\ srErr = "nil"
    /\ srCustom = FALSE /\ srResult = NotCalled

HandlerIdle ==
    /\ bindOutcome = [kind |-> "ok", fields |-> <<>>]
    /\ handlerOutcome = [res |-> "nil", err |-> "nil"]
    /\ runs = <<>>

NoType ==
    [numIn |-> 0, numOut |-> 0, in1Context |-> FALSE, in2Ptr |-> FALSE,
     in2Name |-> <<>>, out0Ptr |-> FALSE, out0Name |-> <<>>, out1Error |-> FALSE]
NotChecked == [done |-> FALSE, value |-> "nil"]

SignatureIdle == typ = NoType /\ checkResult = NotChecked

SharedIdle == clientBacking = <<>> /\ clientLen = 0 /\ reqs = <<>>

\* r.Request of a Request made by NewRequest: nil
NilRequest ==
    [nil |-> TRUE, method |-> "", ctx |-> "unset", header |-> "nil", body |-> FALSE]
NoCall == [ctx |-> "none", method |-> "none", url |-> "none", out |-> NilPair]
NewRequest ==
    /\ httpRequest = NilRequest /\ sendQuery = {}
    /\ doCall = NoCall /\ sendResult = NilPair
SendIdle == NewRequest /\ sendPc = "idle"

\* ---------------------------------------------------------------------
\* Initial state: a Request built by the builder methods, DoRequest entered
\* ---------------------------------------------------------------------
Init ==
    /\ retryCount \in RetryCounts
    /\ retryInterval \in RetryIntervals
    /\ retryCondition \in {"nil", "custom"}
    /\ clientMiddlewares \in ClientMiddlewareLists
    /\ middlewares \in RequestMiddlewareLists
    /\ formParams \in FormEncodings
    /\ data \in DataBodies
    \* body handling and chain handling do not read each other's state: a body
    \* or a form is combined with at most one middleware
    /\ \/ clientMiddlewares = <<>> /\ middlewares = <<>>
       \/ formParams = <<>> /\ data = NoData
       \/ formParams = <<>> /\ Len(clientMiddlewares) + Len(middlewares) = 1
    /\ streams = IF data.set THEN <<data.bytes>> ELSE <<>>
    /\ requestBody = IF data.set THEN 1 ELSE 0
    /\ attemptBody = 0
    /\ ctxDone = FALSE
    /\ pc = "loop"
    /\ attempts = 0
    /\ resp = 0
    /\ err = "nil"
    /\ handler = <<>>
    /\ depth = 0
    /\ ret = NilPair
    /\ events = <<>>
    /\ timer = "off"
    /\ responses = <<>>
    /\ calls = <<>>
    /\ shortCircuits = 0
    /\ parseFailed = FALSE
    /\ result = NilPair
    /\ URLIdle /\ PredicateIdle /\ HandlerIdle /\ SignatureIdle /\ SharedIdle /\ SendIdle

\* ---------------------------------------------------------------------
\* DoRequest, attemptRequest and their environment, step by step
\* ---------------------------------------------------------------------

\* for attempts < maxAttempts { attempts++; ... } and attemptRequest up to the
\* point where the chain (or the direct call) is entered.
Loop ==
    /\ pc = "loop"
    /\ IF attempts < MaxAttempts(retryCount)
       THEN /\ attempts' = attempts + 1
            /\ IF Len(formParams) > 0
               THEN \* body = strings.NewReader(r.formParams.Encode())
                    /\ streams' = Append(streams, formParams)
                    /\ attemptBody' = Len(streams) + 1
                    /\ requestBody' = Len(streams) + 1
               ELSE IF requestBody # 0
               THEN \* io.ReadAll drains r.Request.Body; two readers over the bytes
                    LET bodyBytes == streams[requestBody]
                        drained == [streams EXCEPT ![requestBody] = <<>>]
                        body == Len(streams) + 1
                        copy == Len(streams) + 2
                    IN  /\ streams' = drained \o <<bodyBytes, bodyBytes>>
                        /\ attemptBody' = body
                        /\ requestBody' = RequestBodyAfterSetup(body, copy)
               ELSE /\ attemptBody' = 0
                    /\ requestBody' = 0
                    /\ UNCHANGED streams
            /\ handler' = Compose(clientMiddlewares, middlewares)
            /\ depth' = 0
            /\ events' = <<>>
            /\ ret' = NilPair
            /\ pc' = IF Len(handler') > 0 THEN "chain" ELSE "do"
       ELSE /\ pc' = "final"
            /\ UNCHANGED <<attempts, streams, attemptBody, requestBody, handler,
                           depth, events, ret>>
    /\ UNCHANGED <<outsideRequest, cfgVars, ctxDone, resp, err, timer, responses, calls,
                   shortCircuits, parseFailed, result>>

\* The next middleware of the chain sees the request and calls its delegate.
MwDelegate ==
    /\ pc = "chain"
    /\ depth < Len(handler)
    /\ events' = Append(events, Event("in", handler[depth + 1]))
    /\ depth' = depth + 1
    /\ pc' = IF depth + 1 = Len(handler) THEN "do" ELSE "chain"
    /\ UNCHANGED <<outsideRequest, cfgVars, streams, requestBody, attemptBody, ctxDone, attempts,
                   resp, err, handler, ret, timer, responses, calls,
                   shortCircuits, parseFailed, result>>

\* The next middleware of the chain sees the request and returns a result of
\* its own without calling its delegate.
MwShortCircuit ==
    /\ pc = "chain"
    /\ depth < Len(handler)
    /\ \E out \in ShortCircuitOutcomes :
        /\ IF out.status # 0
           THEN /\ responses' = Append(responses, NewResponse(out.status, "mw"))
                /\ ret' = [resp |-> Len(responses) + 1, err |-> out.err]
           ELSE /\ ret' = [resp |-> 0, err |-> out.err]
                /\ UNCHANGED responses
    /\ events' = events \o <<Event("in", handler[depth + 1]),
                              Event("short", handler[depth + 1])>>
    /\ depth' = depth + 1
    /\ shortCircuits' = shortCircuits + 1
    /\ pc' = "unwind"
    /\ UNCHANGED <<outsideRequest, cfgVars, streams, requestBody, attemptBody, ctxDone, attempts,
                   resp, err, handler, timer, calls, parseFailed, result>>

\* r.client.Do(req) is entered: the transport is handed the attempt's body.
ClientDo ==
    /\ pc = "do"
    /\ calls' = Append(calls,
                       [hasBody |-> attemptBody # 0,
                        body |-> IF attemptBody # 0 THEN streams[attemptBody] ELSE <<>>,
                        out |-> [status |-> 0, err |-> "pending"]])
    /\ events' = Append(events, Event("do", "-"))
    /\ pc' = "inflight"
    /\ UNCHANGED <<outsideRequest, cfgVars, streams, requestBody, attemptBody, ctxDone, attempts,
                   resp, err, handler, depth, ret, timer, responses,
                   shortCircuits, parseFailed, result>>

\* r.client.Do(req) returns: the transport has read some prefix of the body.
ClientDoReturn ==
    /\ pc = "inflight"
    /\ \E out \in DoOutcomes(ctxDone) :
        /\ calls' = [calls EXCEPT ![Len(calls)].out = out]
        /\ IF out.err = "nil"
           THEN /\ responses' = Append(responses, NewResponse(out.status, "transport"))
                /\ ret' = [resp |-> Len(responses) + 1, err |-> "nil"]
           ELSE /\ ret' = [resp |-> 0, err |-> out.err]
                /\ UNCHANGED responses
    /\ IF attemptBody # 0
       THEN \E k \in 0..Len(streams[attemptBody]) :
                streams' = [streams EXCEPT ![attemptBody] =
                               SubSeq(@, k + 1, Len(@))]
       ELSE UNCHANGED streams
    /\ pc' = IF depth > 0 THEN "unwind" ELSE "returned"
    /\ UNCHANGED <<outsideRequest, cfgVars, requestBody, attemptBody, ctxDone, attempts, resp, err,
                   handler, depth, events, timer, shortCircuits, parseFailed,
                   result>>

\* The innermost middleware that has not returned yet sees the result and
\* returns it to its caller.
MwReturn ==
    /\ pc = "unwind"
    /\ depth > 0
    /\ events' = Append(events, Event("out", handler[depth]))
    /\ depth' = depth - 1
    /\ pc' = IF depth - 1 = 0 THEN "returned" ELSE "unwind"
    /\ UNCHANGED <<outsideRequest, cfgVars, streams, requestBody, attemptBody, ctxDone, attempts,
                   resp, err, handler, ret, timer, responses, calls,
                   shortCircuits, parseFailed, result>>

\* attemptRequest returns (nil, err) or (response, nil); DoRequest evaluates
\* resp.Response, which panics on a nil resp, asks shouldRetry, and breaks
\* out of the loop or closes the response and goes on to the next attempt.
AttemptReturns ==
    /\ pc = "returned"
    /\ LET r1 == IF ret.err # "nil" THEN 0 ELSE ret.resp
           e1 == ret.err
       IN  /\ err' = e1
           /\ IF r1 = 0
              THEN \* resp.Response with a nil resp
                   /\ resp' = 0
                   /\ pc' = "panic"
                   /\ UNCHANGED <<responses, timer>>
              ELSE \E answer \in (IF retryCondition = "nil" THEN {FALSE} ELSE BOOLEAN) :
                   IF \/ ~shouldRetry(retryCondition, responses[r1].status, e1, answer)
                      \/ attempts >= MaxAttempts(retryCount)
                   THEN /\ resp' = r1
                        /\ pc' = "final"
                        /\ UNCHANGED <<responses, timer>>
                   ELSE /\ responses' = CloseBeforeRetry(responses, r1)
                        /\ resp' = 0
                        /\ IF retryInterval > 0
                           THEN pc' = "wait" /\ timer' = "armed"
                           ELSE pc' = "loop" /\ UNCHANGED timer
    /\ UNCHANGED <<outsideRequest, cfgVars, streams, requestBody, attemptBody, ctxDone, attempts,
                   handler, depth, ret, events, calls, shortCircuits,
                   parseFailed, result>>

\* time.After(r.retryInterval) delivers.
TimerFires ==
    /\ pc = "wait"
    /\ timer = "armed"
    /\ timer' = "fired"
    /\ UNCHANGED <<outsideRequest, cfgVars, streams, requestBody, attemptBody, ctxDone, pc,
                   attempts, resp, err, handler, depth, ret, events, responses,
                   calls, shortCircuits, parseFailed, result>>

\* select: case <-time.After(r.retryInterval)
WaitElapsed ==
    /\ pc = "wait"
    /\ timer = "fired"
    /\ timer' = "off"
    /\ pc' = "loop"
    /\ UNCHANGED <<outsideRequest, cfgVars, streams, requestBody, attemptBody, ctxDone, attempts,
                   resp, err, handler, depth, ret, events, responses, calls,
                   shortCircuits, parseFailed, result>>

\* select: case <-ctx.Done()
WaitCancelled ==
    /\ pc = "wait"
    /\ ctxDone
    /\ result' = WaitAborted(err)
    /\ pc' = "done"
    /\ UNCHANGED <<outsideRequest, cfgVars, streams, requestBody, attemptBody, ctxDone, attempts,
                   resp, err, handler, depth, ret, events, timer, responses,
                   calls, shortCircuits, parseFailed>>

\* The code after the loop: the last error, or the parsed last response.
Finish ==
    /\ pc = "final"
    /\ IF err # "nil"
       THEN /\ result' = [resp |-> 0, err |-> err]
            /\ pc' = "done"
            /\ UNCHANGED <<responses, parseFailed>>
       ELSE IF resp = 0
       THEN \* resp.ParseResponse() with a nil resp
            /\ pc' = "panic"
            /\ UNCHANGED <<responses, parseFailed, result>>
       ELSE \E ok \in ParseOutcomes :
            IF ok
            THEN /\ result' = [resp |-> resp, err |-> "nil"]
                 /\ pc' = "done"
                 /\ UNCHANGED <<responses, parseFailed>>
            ELSE /\ responses' = CloseOnParseError(responses, resp)
                 /\ parseFailed' = TRUE
                 /\ result' = [resp |-> 0, err |-> "parse"]
                 /\ pc' = "done"
    /\ UNCHANGED <<outsideRequest, cfgVars, streams, requestBody, attemptBody, ctxDone, attempts,
                   resp, err, handler, depth, ret, events, timer, calls,
                   shortCircuits>>

\* The caller cancels the context while DoRequest is running.
CtxCancel ==
    /\ ~ctxDone
    /\ pc \notin {"done", "panic"}
    /\ ctxDone' = TRUE
    /\ UNCHANGED <<outsideRequest, cfgVars, streams, requestBody, attemptBody, pc, attempts, resp,
                   err, handler, depth, ret, events, timer, responses, calls,
                   shortCircuits, parseFailed, result>>

Next ==
    \/ Loop
    \/ MwDelegate
    \/ MwShortCircuit
    \/ ClientDo
    \/ ClientDoReturn
    \/ MwReturn
    \/ AttemptReturns
    \/ TimerFires
    \/ WaitElapsed
    \/ WaitCancelled
    \/ Finish
    \/ CtxCancel

Spec == Init /\ [][Next]_vars

\* The steps the running call takes by itself: the goroutine of DoRequest
\* is scheduled, every middleware and every transport call returns, and the
\* timer of time.After delivers.  Cancelling the context is the caller's
\* step and may never happen.
Step ==
    \/ Loop
    \/ MwDelegate
    \/ MwShortCircuit
    \/ ClientDo
    \/ ClientDoReturn
    \/ MwReturn
    \/ AttemptReturns
    \/ TimerFires
    \/ WaitElapsed
    \/ WaitCancelled
    \/ Finish

SpecLive == Init /\ [][Next]_vars /\ WF_vars(Step)

\* ---------------------------------------------------------------------
\* URL composition of attemptRequest on its own inputs.  A string is the
\* sequence of its characters.
\* ---------------------------------------------------------------------
HasPrefix(s, p) == Len(s) >= Len(p) /\ SubSeq(s, 1, Len(p)) = p
HasSuffix(s, p) == Len(s) >= Len(p) /\ SubSeq(s, Len(s) - Len(p) + 1, Len(s)) = p
Contains(s, c) == \E i \in 1..Len(s) : s[i] = c
Slashes(n) == [i \in 1..n |-> "/"]
HTTP == <<"h", "t", "t", "p", ":", "/", "/">>
HTTPS == <<"h", "t", "t", "p", "s", ":", "/", "/">>
BaseURLs == {<<>>} \cup {HTTP \o <<"x">> \o Slashes(n) : n \in 0..MaxSlashes}
RelativePaths ==
    {Slashes(n) \o t : n \in 0..MaxSlashes, t \in {<<>>, <<"y">>, <<"y", "?", "b">>}}
URLPaths == RelativePaths \cup {HTTP \o <<"z">>, HTTPS \o <<"z">>}
QueryEncodings == {<<>>, <<"a">>}

\* fullURL := urlPath; with a base and a path that is not absolute, the base,
\* a slash added when neither side has one, one slash dropped when both have.
JoinBase(base, path) ==
    IF base # <<>> /\ ~HasPrefix(path, HTTP) /\ ~HasPrefix(path, HTTPS)
    THEN IF ~HasSuffix(base, <<"/">>) /\ ~HasPrefix(path, <<"/">>)
         THEN base \o <<"/">> \o path
         ELSE IF HasSuffix(base, <<"/">>) /\ HasPrefix(path, <<"/">>)
         THEN base \o SubSeq(path, 2, Len(path))
         ELSE base \o path
    ELSE path

\* if len(r.queryParams) > 0: "&" or "?" and the encoded parameters
WithQuery(url, query) ==
    IF Len(query) > 0
    THEN IF Contains(url, "?") THEN url \o <<"&">> \o query
                               ELSE url \o <<"?">> \o query
    ELSE url

FullURL(base, path, query) == WithQuery(JoinBase(base, path), query)

URLInit ==
    /\ baseURL \in BaseURLs
    /\ urlPath \in URLPaths
    /\ queryParams \in QueryEncodings
    /\ fullURLs = <<>>
    /\ RequestIdle /\ PredicateIdle /\ HandlerIdle /\ SignatureIdle /\ SharedIdle /\ SendIdle

\* One attempt composes its URL from the client's base, the urlPath argument
\* and the query parameters; none of the three is written.
ComposeURL ==
    /\ Len(fullURLs) < MaxRetry + 1
    /\ fullURLs' = Append(fullURLs, FullURL(baseURL, urlPath, queryParams))
    /\ UNCHANGED <<outsideURL, baseURL, urlPath, queryParams>>

URLNext == ComposeURL

SpecURL == URLInit /\ [][URLNext]_vars

\* ---------------------------------------------------------------------
\* shouldRetry on its own inputs
\* ---------------------------------------------------------------------
PredicateStatuses == {0, 200, 404, 429, 499, 500, 501, 503}
PredicateErrors == {"nil", "transport", "cancel"}

PredicateInit ==
    /\ srCondition \in {"nil", "custom"}
    /\ srStatus \in PredicateStatuses
    /\ srErr \in PredicateErrors
    /\ srCustom \in BOOLEAN
    /\ srResult = NotCalled
    /\ RequestIdle /\ URLIdle /\ HandlerIdle /\ SignatureIdle /\ SharedIdle /\ SendIdle

\* r.shouldRetry(resp, err)
CallShouldRetry ==
    /\ ~srResult.done
    /\ srResult' = [done |-> TRUE,
                    value |-> shouldRetry(srCondition, srStatus, srErr, srCustom)]
    /\ UNCHANGED <<outsidePredicate, srCondition, srStatus, srErr, srCustom>>

PredicateNext == CallShouldRetry

SpecPredicate == PredicateInit /\ [][PredicateNext]_vars

\* ---------------------------------------------------------------------
\* handleRequest (net/mhttp/mhttp_handler.go).  An error is [kind, msg];
\* kind "nil" is the nil error.  The message of a field's validation failure
\* is written as the field's name.
\* ---------------------------------------------------------------------
FieldNames == {"age", "name", "zip"}
NilError == [kind |-> "nil", msg |-> ""]
NothingAttached == [set |-> FALSE, value |-> "nil"]

\* The sequences without repetition over a set, up to a length
RECURSIVE DistinctSeqs(_, _)
DistinctSeqs(S, n) ==
    IF n = 0 THEN {<<>>}
    ELSE LET shorter == DistinctSeqs(S, n - 1)
         IN  shorter \cup {Append(q, x) : q \in {t \in shorter : Len(t) = n - 1},
                                           x \in S}
\* ... of which those that name no field twice
FieldLists == {q \in DistinctSeqs(FieldNames, MaxFields) :
                 \A i, j \in 1..Len(q) : i # j => q[i] # q[j]}

\* r.ShouldBind(req): nil, a validator.ValidationErrors listing the invalid
\* fields in the binding collaborator's order, or some other error
BindOutcomes ==
    {[kind |-> "ok", fields |-> <<>>], [kind |-> "other", fields |-> <<>>]}
        \cup {[kind |-> "validation", fields |-> q] : q \in FieldLists}

\* what the handler method returns: (*XxxRes, error)
HandlerOutcomes == [res : {"nil", "res"}, err : {"nil", "e1", "e2"}]

\* for _, e := range validationErrors.Translate(...): Translate returns a
\* ValidationErrorsTranslations, which is a map[string]string from the
\* field's namespace to its message, and ranging over a Go map visits its
\* entries in an unspecified order: errMsgs is any arrangement of the
\* messages.
RangeOrders(fields) ==
    {q \in DistinctSeqs({fields[i] : i \in 1..Len(fields)}, Len(fields)) :
        /\ Len(q) = Len(fields)
        /\ \A i, j \in 1..Len(q) : i # j => q[i] # q[j]}

\* Variant of handleRequest that attaches the handler's response before it
\* looks at the handler's error.
handleRequestAttachFirst(bind, h, errMsgs) ==
    IF bind.kind = "validation" /\ Len(errMsgs) > 0
    THEN [ret |-> [kind |-> "ValidationFailed", msg |-> errMsgs[1]],
          invoked |-> FALSE, attached |-> NothingAttached]
    ELSE IF bind.kind # "ok"
    THEN [ret |-> [kind |-> bind.kind, msg |-> ""],
          invoked |-> FALSE, attached |-> NothingAttached]
    ELSE IF h.err # "nil"
    THEN [ret |-> [kind |-> "handler", msg |-> h.err],
          invoked |-> TRUE, attached |-> [set |-> TRUE, value |-> h.res]]
    ELSE [ret |-> NilError,
          invoked |-> TRUE, attached |-> [set |-> TRUE, value |-> h.res]]

\* handleRequest: bind; on a validation failure with messages return
\* merror.NewCode(CodeValidationFailed, errMsgs[0]), on any other binding
\* error return it; call the method; return its error if it is not nil;
\* else r.SetHandlerResponse(results[0]) and return nil.
handleRequest(bind, h, errMsgs) ==
    IF bind.kind = "validation" /\ Len(errMsgs) > 0
    THEN [ret |-> [kind |-> "ValidationFailed", msg |-> errMsgs[1]],
          invoked |-> FALSE, attached |-> NothingAttached]
    ELSE IF bind.kind # "ok"
    THEN [ret |-> [kind |-> bind.kind, msg |-> ""],
          invoked |-> FALSE, attached |-> NothingAttached]
    ELSE IF h.err # "nil"
    THEN [ret |-> [kind |-> "handler", msg |-> h.err],
          invoked |-> TRUE, attached |-> NothingAttached]
    ELSE [ret |-> NilError,
          invoked |-> TRUE, attached |-> [set |-> TRUE, value |-> h.res]]

HandlerInit ==
    /\ bindOutcome \in BindOutcomes
    /\ handlerOutcome \in HandlerOutcomes
    /\ runs = <<>>
    /\ RequestIdle /\ URLIdle /\ PredicateIdle /\ SignatureIdle /\ SharedIdle /\ SendIdle

\* One run of handleRequest on the inbound request
HandleRequest ==
    /\ Len(runs) < MaxRuns
    /\ \E errMsgs \in RangeOrders(bindOutcome.fields) :
         runs' = Append(runs, handleRequest(bindOutcome, handlerOutcome, errMsgs))
    /\ UNCHANGED <<outsideHandler, bindOutcome, handlerOutcome>>

HandlerNext == HandleRequest

SpecHandler == HandlerInit /\ [][HandlerNext]_vars

\* ---------------------------------------------------------------------
\* checkMethodSignature (net/mhttp/mhttp_handler.go).  A method type is what
\* the checks read of it; a type name is the sequence of its characters.
\* ---------------------------------------------------------------------
ReqSuffix == <<"R", "e", "q">>
ResSuffix == <<"R", "e", "s">>
TypeNames == {<<>>, <<"H", "i">>, <<"H", "i">> \o ReqSuffix, <<"H", "i">> \o ResSuffix}
MethodTypes ==
    [numIn : {2, 3, 4}, numOut : {1, 2, 3}, in1Context : BOOLEAN,
     in2Ptr : BOOLEAN, in2Name : TypeNames,
     out0Ptr : BOOLEAN, out0Name : TypeNames, out1Error : BOOLEAN]

ErrArity == "invalid method signature, required: func(*Controller) (context.Context, *XxxReq) (*XxxRes, error)"
ErrContext == "first parameter should be context.Context"
ErrReqPointer == "request parameter should be pointer type"
ErrReqName == "request parameter should end with 'Req'"
ErrResPointer == "response parameter should be pointer type"
ErrResName == "response parameter should end with 'Res'"
ErrError == "second return value should be error"

\* Variant of checkMethodSignature without the check of the context parameter.
checkMethodSignatureNoContext(t) ==
    IF t.numIn # 3 \/ t.numOut # 2 THEN ErrArity
    ELSE IF ~t.in2Ptr THEN ErrReqPointer
    ELSE IF ~HasSuffix(t.in2Name, ReqSuffix) THEN ErrReqName
    ELSE IF ~t.out0Ptr THEN ErrResPointer
    ELSE IF ~HasSuffix(t.out0Name, ResSuffix) THEN ErrResName
    ELSE IF ~t.out1Error THEN ErrError
    ELSE "nil"

\* checkMethodSignature(typ): the first failing check's error, else nil
checkMethodSignature(t) ==
    IF t.numIn # 3 \/ t.numOut # 2 THEN ErrArity
    ELSE IF ~t.in1Context THEN ErrContext
    ELSE IF ~t.in2Ptr THEN ErrReqPointer
    ELSE IF ~HasSuffix(t.in2Name, ReqSuffix) THEN ErrReqName
    ELSE IF ~t.out0Ptr THEN ErrResPointer
    ELSE IF ~HasSuffix(t.out0Name, ResSuffix) THEN ErrResName
    ELSE IF ~t.out1Error THEN ErrError
    ELSE "nil"

SignatureInit ==
    /\ typ \in MethodTypes
    /\ checkResult = NotChecked
    /\ RequestIdle /\ URLIdle /\ PredicateIdle /\ HandlerIdle /\ SharedIdle /\ SendIdle

\* checkMethodSignature is called on the method's type at registration
CheckSignature ==
    /\ ~checkResult.done
    /\ checkResult' = [done |-> TRUE, value |-> checkMethodSignature(typ)]
    /\ UNCHANGED <<outsideSignature, typ>>

SignatureNext == CheckSignature

SpecSignature == SignatureInit /\ [][SignatureNext]_vars

\* ---------------------------------------------------------------------
\* Two Requests of one client, each running the chain preparation of one
\* attempt: middlewares := append(r.client.middlewares, r.middlewares...)
\* and the loop that reads middlewares[i].  A slice is a length over a
\* backing array; append writes into the array of its first argument when
\* the capacity suffices and copies to a new array when it does not.
\* ---------------------------------------------------------------------
ClientLists == {<<>>, <<"A">>, <<"A", "B">>}
FirstRequestLists == {<<>>, <<"P">>, <<"P", "Q">>}
SecondRequestLists == {<<"R">>, <<"R", "S">>}
Unused(n) == [i \in 1..n |-> ""]
NewAttempt(mws) ==
    [mws |-> mws, pc |-> "append", inPlace |-> FALSE, written |-> 0,
     own |-> <<>>, idx |-> 0, chain |-> <<>>]

SharedInit ==
    /\ \E list \in ClientLists, spare \in 0..MaxSpare :
         /\ clientBacking = list \o Unused(spare)
         /\ clientLen = Len(list)
    /\ \E m1 \in FirstRequestLists, m2 \in SecondRequestLists :
         reqs = <<NewAttempt(m1), NewAttempt(m2)>>
    /\ RequestIdle /\ URLIdle /\ PredicateIdle /\ HandlerIdle /\ SignatureIdle /\ SendIdle

\* append(r.client.middlewares, r.middlewares...): in place when the
\* capacity suffices, else into a new array holding a copy
SharedAppend(i) ==
    LET r == reqs[i]
        n == Len(r.mws)
    IN  /\ r.pc = "append"
        /\ IF clientLen + n <= Len(clientBacking)
           THEN reqs' = [reqs EXCEPT ![i] =
                          [r EXCEPT !.inPlace = TRUE,
                                    !.idx = clientLen + n,
                                    !.pc = IF n > 0 THEN "write" ELSE "build"]]
           ELSE reqs' = [reqs EXCEPT ![i] =
                          [r EXCEPT !.inPlace = FALSE,
                                    !.own = SubSeq(clientBacking, 1, clientLen) \o r.mws,
                                    !.idx = clientLen + n,
                                    !.pc = "build"]]
        /\ UNCHANGED <<outsideShared, clientBacking, clientLen>>

\* the in-place append stores its next element behind the client's list
SharedWrite(i) ==
    LET r == reqs[i]
    IN  /\ r.pc = "write"
        /\ clientBacking' =
             [clientBacking EXCEPT ![clientLen + r.written + 1] = r.mws[r.written + 1]]
        /\ reqs' = [reqs EXCEPT ![i] =
                      [r EXCEPT !.written = r.written + 1,
                                !.pc = IF r.written + 1 = Len(r.mws)
                                       THEN "build" ELSE "write"]]
        /\ UNCHANGED <<outsideShared, clientLen>>

\* handler = middlewares[i](handler), for i from the last index down to 0
SharedBuild(i) ==
    LET r == reqs[i]
    IN  /\ r.pc = "build"
        /\ IF r.idx = 0
           THEN reqs' = [reqs EXCEPT ![i] = [r EXCEPT !.pc = "done"]]
           ELSE LET m == IF r.inPlace THEN clientBacking[r.idx] ELSE r.own[r.idx]
                IN  reqs' = [reqs EXCEPT ![i] =
                              [r EXCEPT !.chain = <<m>> \o r.chain,
                                        !.idx = r.idx - 1]]
        /\ UNCHANGED <<outsideShared, clientBacking, clientLen>>

SharedNext ==
    \E i \in {1, 2} : SharedAppend(i) \/ SharedWrite(i) \/ SharedBuild(i)

SpecShared == SharedInit /\ [][SharedNext]_vars

\* ---------------------------------------------------------------------
\* A Request from NewRequest to the return of Send.  r.Request is nil until
\* a builder method that needs it creates it; DoRequest is taken by its
\* outcome (a Response, an error, or the panic) and by r.Request = req.
\* ---------------------------------------------------------------------
SendMethods == {"", "GET", "POST"}
SendContexts == {"nil", "ctx1"}
SendURLs == {"/a", "/b"}
QueryKeys == {"k1", "k2"}
Panicked == [resp |-> 0, err |-> "panic"]
DoRequestOutcomes ==
    {[resp |-> 1, err |-> "nil"], [resp |-> 0, err |-> "error"], Panicked}
\* &http.Request{} and &http.Request{Header: make(http.Header)}
BareRequest == [NilRequest EXCEPT !.nil = FALSE]
RequestWithHeader == [BareRequest EXCEPT !.header = "empty"]
\* (*http.Request).Context() on a non-nil request
Context(req) == IF req.ctx = "unset" THEN "background" ELSE req.ctx

SendInit ==
    /\ NewRequest /\ sendPc = "build"
    /\ RequestIdle /\ URLIdle /\ PredicateIdle /\ HandlerIdle /\ SignatureIdle
    /\ SharedIdle

SetContext ==
    /\ sendPc = "build"
    /\ \E ctx \in SendContexts :
         LET made == IF httpRequest.nil THEN BareRequest ELSE httpRequest
         IN  httpRequest' = IF ctx # "nil" THEN [made EXCEPT !.ctx = ctx] ELSE made
    /\ UNCHANGED <<outsideSend, sendQuery, sendPc, doCall, sendResult>>

Method ==
    /\ sendPc = "build"
    /\ \E method \in SendMethods :
         LET made == IF httpRequest.nil THEN RequestWithHeader ELSE httpRequest
         IN  httpRequest' = [made EXCEPT !.method = method]
    /\ UNCHANGED <<outsideSend, sendQuery, sendPc, doCall, sendResult>>

\* r.Request.Header.Set(key, value); a Request made by SetContext alone has
\* a nil Header map, and the assignment to an entry of a nil map panics
Header ==
    /\ sendPc = "build"
    /\ LET made == IF httpRequest.nil THEN RequestWithHeader ELSE httpRequest
       IN  IF made.header = "nil"
           THEN /\ sendPc' = "panic"
                /\ UNCHANGED httpRequest
           ELSE /\ httpRequest' = [made EXCEPT !.header = "set"]
                /\ UNCHANGED sendPc
    /\ UNCHANGED <<outsideSend, sendQuery, doCall, sendResult>>

\* Data with a string, a []byte or an io.Reader
Data ==
    /\ sendPc = "build"
    /\ LET made == IF httpRequest.nil THEN RequestWithHeader ELSE httpRequest
       IN  httpRequest' = [made EXCEPT !.body = TRUE]
    /\ UNCHANGED <<outsideSend, sendQuery, sendPc, doCall, sendResult>>

SetQuery ==
    /\ sendPc = "build"
    /\ \E key \in QueryKeys : sendQuery' = sendQuery \cup {key}
    /\ UNCHANGED <<outsideSend, httpRequest, sendPc, doCall, sendResult>>

\* Send up to the entry of DoRequest: both branches evaluate
\* r.Request.Context(), which dereferences r.Request
Send ==
    /\ sendPc = "build"
    /\ \E url \in SendURLs :
         LET method == IF httpRequest.nil \/ httpRequest.method = ""
                       THEN "GET" ELSE httpRequest.method
         IN  IF httpRequest.nil
             THEN /\ sendPc' = "panic"
                  /\ UNCHANGED doCall
             ELSE /\ doCall' = [ctx |-> Context(httpRequest), method |-> method,
                                url |-> url, out |-> NilPair]
                  /\ sendPc' = "doing"
    /\ UNCHANGED <<outsideSend, httpRequest, sendQuery, sendResult>>

\* DoRequest ends and Send returns what it returned; an attempt that got to
\* r.Request = req has replaced r.Request by the request it built
SendReturn ==
    /\ sendPc = "doing"
    /\ \E out \in DoRequestOutcomes :
         LET req == [nil |-> FALSE, method |-> doCall.method, ctx |-> doCall.ctx,
                     header |-> IF httpRequest.header = "set" THEN "set" ELSE "empty",
                     body |-> httpRequest.body]
         IN  /\ doCall' = [doCall EXCEPT !.out = out]
             /\ IF out = Panicked
                THEN sendPc' = "panic" /\ UNCHANGED sendResult
                ELSE sendPc' = "returned" /\ sendResult' = out
             /\ IF out.err = "nil"
                THEN httpRequest' = req
                ELSE httpRequest' \in {httpRequest, req}
    /\ UNCHANGED <<outsideSend, sendQuery>>

SendNext ==
    SetContext \/ Method \/ Header \/ Data \/ SetQuery \/ Send \/ SendReturn

SpecSend == SendInit /\ [][SendNext]_vars

\* ---------------------------------------------------------------------
\* Vocabulary of the properties
\* ---------------------------------------------------------------------
Terminated == pc \in {"done", "panic"}
RetryableStatus(s) == s >= 500 \/ s = 429
IsResponse(c) == c.out.err = "nil"
Effective == clientMiddlewares \o middlewares
EventsOf(kind) == SelectSeq(events, LAMBDA e : e.k = kind)
\* what the last attempt handed back to DoRequest
LastOutcome == IF ret.err # "nil" THEN [resp |-> 0, err |-> ret.err] ELSE ret
CancelledInWait == pc = "done" /\ result.err = "cancel"

\* ---------------------------------------------------------------------
\* C1: with retryCount n >= 0 and the default retry predicate, when every
\* transport call fails with a transport error, DoRequest makes exactly n+1
\* transport calls and returns the transport error without crashing.
\* ---------------------------------------------------------------------
C1_AllFailuresExhaustBudget ==
    ( /\ Terminated
      /\ retryCount >= 0
      /\ retryCondition = "nil"
      /\ shortCircuits = 0
      /\ Len(calls) >= 1
      /\ \A i \in 1..Len(calls) : calls[i].out.err = "transport" )
    => /\ pc = "done"
       /\ Len(calls) = retryCount + 1
       /\ result = [resp |-> 0, err |-> "transport"]

\* ---------------------------------------------------------------------
\* C2: with the default predicate, retryInterval 0 and no middleware
\* answering in the transport's place, no transport call follows a response
\* with a non-retryable status, and when the last call returned such a
\* response DoRequest returns exactly that response with a nil error
\* (ParseResponse succeeding), after retrying every retryable status before.
\* ---------------------------------------------------------------------
C2_RetryUntilNonRetryable ==
    (retryCondition = "nil" /\ retryInterval = 0 /\ shortCircuits = 0)
    => /\ \A j \in 1..(Len(calls) - 1) :
            IsResponse(calls[j]) /\ RetryableStatus(calls[j].out.status)
       /\ ( /\ Terminated
            /\ Len(calls) >= 1
            /\ IsResponse(calls[Len(calls)])
            /\ ~RetryableStatus(calls[Len(calls)].out.status) )
          => /\ pc = "done"
             /\ Len(calls) <= retryCount + 1 \/ Len(calls) = 1
             /\ \/ parseFailed
                \/ /\ result = [resp |-> Len(responses), err |-> "nil"]
                   /\ responses[result.resp].status = calls[Len(calls)].out.status
                   /\ responses[result.resp].closed = 0

C2_Witness ==
    /\ pc = "done"
    /\ retryCount = 2 /\ retryInterval = 0 /\ retryCondition = "nil"
    /\ shortCircuits = 0
    /\ Len(calls) = 3
    /\ calls[1].out.status = 500 /\ calls[2].out.status = 500
    /\ calls[3].out.status = 200
    /\ result = [resp |-> 3, err |-> "nil"]

\* ---------------------------------------------------------------------
\* C3: when DoRequest leaves the inter-retry wait with the context cancelled
\* and the timer not fired, it returns (nil, cancellation error), and no
\* transport call is made in that step or after it.
\* ---------------------------------------------------------------------
C3_CancelDuringWait ==
    [][ /\ (pc = "wait" /\ ctxDone /\ timer = "armed" /\ pc' # "wait")
           => /\ pc' = "done"
              /\ result' = [resp |-> 0, err |-> "cancel"]
              /\ calls' = calls
              /\ attempts' = attempts
        /\ CancelledInWait => (calls' = calls /\ attempts' = attempts /\ pc' = pc)
      ]_vars

C3_Witness ==
    /\ pc = "done"
    /\ timer = "armed"
    /\ ctxDone
    /\ result = [resp |-> 0, err |-> "cancel"]
    /\ Len(calls) = 1
    /\ attempts < MaxAttempts(retryCount)

\* ---------------------------------------------------------------------
\* C4: with a body set by Data/SetBody and no form parameters, every
\* transport call of one DoRequest is handed the same body bytes, the ones
\* that were set.
\* ---------------------------------------------------------------------
C4_BodyIdenticalOnEveryAttempt ==
    (data.set /\ formParams = <<>>)
    => \A i \in 1..Len(calls) : calls[i].hasBody /\ calls[i].body = data.bytes

\* ---------------------------------------------------------------------
\* C5: in every attempt the middlewares see the request in the order of the
\* effective list (client's, then the request's) and the response in the
\* reverse order; the transport is called only after all of them delegated;
\* after a short-circuit nothing but returns happens: no later middleware
\* and no transport call.
\* ---------------------------------------------------------------------
C5_ChainOrder ==
    LET ins == EventsOf("in")
        outs == EventsOf("out")
        dos == EventsOf("do")
        shorts == EventsOf("short")
    IN  /\ Len(ins) <= Len(Effective)
        /\ \A i \in 1..Len(ins) : ins[i].m = Effective[i]
        /\ Len(outs) <= Len(ins)
        /\ \A i \in 1..Len(outs) : outs[i].m = Effective[Len(ins) - i + 1]
        /\ \A p \in 1..Len(events) : \A q \in (p + 1)..Len(events) :
              /\ events[p].k = "out" => events[q].k = "out"
              /\ events[p].k = "short" => events[q].k = "out"
              /\ events[p].k = "do" => events[q].k = "out"
        /\ \A p \in 1..Len(events) :
              events[p].k = "do" => p = Len(Effective) + 1
        /\ Len(shorts) >= 1 => Len(dos) = 0
        /\ pc = "returned"
             => /\ Len(outs) = Len(ins)
                /\ Len(shorts) = 0 => (Len(ins) = Len(Effective) /\ Len(dos) = 1)

C5_Witness ==
    /\ pc = "returned"
    /\ clientMiddlewares = <<"A">> /\ middlewares = <<"B", "C">>
    /\ events = <<Event("in", "A"), Event("in", "B"), Event("in", "C"),
                  Event("do", "-"),
                  Event("out", "C"), Event("out", "B"), Event("out", "A")>>

\* ---------------------------------------------------------------------
\* C6: for every retryCount, negative ones included, and every retry
\* predicate, a DoRequest call makes at least 1 and at most
\* max(retryCount+1, 1) attempts; with retryCount <= 0 exactly one.
\* ---------------------------------------------------------------------
C6_AttemptBounds ==
    /\ attempts <= (IF retryCount + 1 > 1 THEN retryCount + 1 ELSE 1)
    /\ Terminated => attempts >= 1
    /\ (Terminated /\ retryCount <= 0) => attempts = 1

C6_Witness ==
    /\ pc = "done"
    /\ retryCount < 0
    /\ retryCondition = "custom"
    /\ attempts = 1
    /\ result.resp # 0
    /\ responses[result.resp].status = 500

\* ---------------------------------------------------------------------
\* C7: when a retry attempt is about to be issued (or waited for), every
\* Response the earlier attempts produced has been closed, and DoRequest
\* never closes a Response twice, the parse-error path included.
\* ---------------------------------------------------------------------
C7_ClosedBeforeRetryAtMostOnce ==
    /\ \A i \in 1..Len(responses) : responses[i].closed <= 1
    /\ (pc \in {"loop", "wait"} /\ attempts >= 1)
         => \A i \in 1..Len(responses) : responses[i].closed = 1
    /\ (pc \in {"chain", "do", "inflight"} /\ attempts >= 2)
         => \A i \in 1..Len(responses) : responses[i].closed = 1

C7_Witness ==
    /\ pc = "do"
    /\ attempts = 3
    /\ Len(responses) = 2
    /\ responses[1].closed = 1 /\ responses[2].closed = 1

\* ---------------------------------------------------------------------
\* C8: when ParseResponse fails on the final response, DoRequest has closed
\* that response, has returned (nil, parse error), and makes no further
\* attempt even when the retry budget is not used up.
\* ---------------------------------------------------------------------
C8_ParseErrorClosesAndReturns ==
    parseFailed
    => /\ pc = "done"
       /\ result = [resp |-> 0, err |-> "parse"]
       /\ resp # 0
       /\ responses[resp].closed = 1
       /\ Len(calls) <= attempts

C8_Witness ==
    /\ parseFailed
    /\ pc = "done"
    /\ attempts = 1
    /\ retryCount = 2
    /\ result.err = "parse"

\* ---------------------------------------------------------------------
\* C9: with retryCount > 0 and the default predicate, a transport call that
\* fails with the context's cancellation error is the last one, and
\* DoRequest returns (nil, cancellation error).
\* ---------------------------------------------------------------------
C9_CancelInFlightSurfaces ==
    (retryCount > 0 /\ retryCondition = "nil")
    => /\ \A i \in 1..Len(calls) : calls[i].out.err = "cancel" => i = Len(calls)
       /\ ( /\ Terminated
            /\ Len(calls) >= 1
            /\ calls[Len(calls)].out.err = "cancel"
            /\ ret.err = "cancel" )
          => (pc = "done" /\ result = [resp |-> 0, err |-> "cancel"])

\* ---------------------------------------------------------------------
\* C10: when DoRequest ends without cancellation and without a parse error,
\* it returns what the last attempt handed back: its error when it failed,
\* its response with a nil error when it produced one.
\* ---------------------------------------------------------------------
C10_ResultIsLastOutcome ==
    ( /\ Terminated
      /\ ~CancelledInWait
      /\ ~parseFailed
      /\ LastOutcome # NilPair )
    => (pc = "done" /\ result = LastOutcome)

\* ---------------------------------------------------------------------
\* C11: with a non-empty base and a relative path, the URL of every attempt
\* has exactly one slash between base and path, however many slashes the
\* base ends with or the path starts with, and is the same on every attempt.
\* ---------------------------------------------------------------------
RECURSIVE TrimRightSlashes(_)
TrimRightSlashes(s) ==
    IF HasSuffix(s, <<"/">>) THEN TrimRightSlashes(SubSeq(s, 1, Len(s) - 1)) ELSE s
RECURSIVE TrimLeftSlashes(_)
TrimLeftSlashes(s) ==
    IF HasPrefix(s, <<"/">>) THEN TrimLeftSlashes(SubSeq(s, 2, Len(s))) ELSE s

C11_ExactlyOneSlash ==
    (baseURL # <<>> /\ urlPath \in RelativePaths)
    => \A i \in 1..Len(fullURLs) :
         /\ fullURLs[i] = WithQuery(TrimRightSlashes(baseURL) \o <<"/">>
                                       \o TrimLeftSlashes(urlPath), queryParams)
         /\ fullURLs[i] = fullURLs[1]

\* ---------------------------------------------------------------------
\* C12: without a custom condition shouldRetry is true exactly when err is
\* non-nil, or resp is non-nil with status >= 500 or status 429; with a
\* custom condition it returns the custom condition's answer, whatever the
\* default rule would say.
\* ---------------------------------------------------------------------
C12_ShouldRetryTable ==
    srResult.done
    => IF srCondition = "nil"
       THEN srResult.value
              <=> \/ srErr # "nil"
                  \/ srStatus # 0 /\ (srStatus >= 500 \/ srStatus = 429)
       ELSE srResult.value <=> srCustom

C12_Witness ==
    /\ srResult.done
    /\ srCondition = "nil" /\ srErr = "nil" /\ srStatus = 429
    /\ srResult.value

\* ---------------------------------------------------------------------
\* C13: a binding failure that reports two or more invalid fields makes
\* handleRequest return ValidationFailed with the message of the first
\* field in the binding collaborator's order, the same in every run.
\* ---------------------------------------------------------------------
C13_FirstFieldDeterministic ==
    (bindOutcome.kind = "validation" /\ Len(bindOutcome.fields) >= 2)
    => /\ \A i \in 1..Len(runs) :
            runs[i].ret = [kind |-> "ValidationFailed", msg |-> bindOutcome.fields[1]]
       /\ \A i, j \in 1..Len(runs) : runs[i].ret = runs[j].ret

\* ---------------------------------------------------------------------
\* C14: handleRequest attaches the handler's response and returns nil if
\* and only if binding succeeded and the handler returned a nil error; after
\* a binding failure the handler is not invoked and nothing is attached;
\* a non-nil handler error is returned as it is and nothing is attached.
\* ---------------------------------------------------------------------
C14_AttachIffSuccess ==
    \A i \in 1..Len(runs) :
      LET run == runs[i]
          success == bindOutcome.kind = "ok" /\ handlerOutcome.err = "nil"
      IN  /\ run.attached.set <=> success
          /\ run.ret = NilError <=> success
          /\ success => run.invoked /\ run.attached.value = handlerOutcome.res
          /\ bindOutcome.kind # "ok" => ~run.invoked
          /\ (bindOutcome.kind = "ok" /\ handlerOutcome.err # "nil")
               => /\ run.invoked
                  /\ run.ret = [kind |-> "handler", msg |-> handlerOutcome.err]

C14_Witness ==
    /\ Len(runs) >= 1
    /\ bindOutcome.kind = "ok"
    /\ handlerOutcome = [res |-> "res", err |-> "nil"]
    /\ runs[1].ret = NilError
    /\ runs[1].attached = [set |-> TRUE, value |-> "res"]

\* ---------------------------------------------------------------------
\* C15: checkMethodSignature returns nil exactly when the five checks hold
\* (3 inputs and 2 outputs; input 1 a context; input 2 a pointer to a type
\* named ...Req; output 0 a pointer to a type named ...Res; output 1 an
\* error); otherwise it returns a failure of the first check that is
\* violated, in that order, and no failure belongs to two checks.
\* ---------------------------------------------------------------------
CheckHolds(k) ==
    CASE k = 1 -> typ.numIn = 3 /\ typ.numOut = 2
      [] k = 2 -> typ.in1Context
      [] k = 3 -> typ.in2Ptr /\ HasSuffix(typ.in2Name, <<"R", "e", "q">>)
      [] k = 4 -> typ.out0Ptr /\ HasSuffix(typ.out0Name, <<"R", "e", "s">>)
      [] k = 5 -> typ.out1Error
FailuresOfCheck(k) ==
    CASE k = 1 -> {ErrArity}
      [] k = 2 -> {ErrContext}
      [] k = 3 -> {ErrReqPointer, ErrReqName}
      [] k = 4 -> {ErrResPointer, ErrResName}
      [] k = 5 -> {ErrError}

C15_FirstViolatedCheck ==
    /\ \A j, k \in 1..5 : j # k => FailuresOfCheck(j) \cap FailuresOfCheck(k) = {}
    /\ \A k \in 1..5 : "nil" \notin FailuresOfCheck(k)
    /\ checkResult.done
         => /\ checkResult.value = "nil" <=> \A k \in 1..5 : CheckHolds(k)
            /\ \A k \in 1..5 :
                 (~CheckHolds(k) /\ \A j \in 1..(k - 1) : CheckHolds(j))
                   => checkResult.value \in FailuresOfCheck(k)

C15_Witness ==
    /\ checkResult.done
    /\ typ.numIn = 3 /\ typ.numOut = 2
    /\ ~typ.in1Context
    /\ ~typ.in2Ptr
    /\ checkResult.value = "first parameter should be context.Context"

\* ---------------------------------------------------------------------
\* C16: whatever the interleaving of two Requests of one client, no attempt
\* writes the client's middleware list or its backing array, and the chain
\* of each attempt is the client's middlewares followed by that Request's.
\* ---------------------------------------------------------------------
C16_ClientListNeverWritten ==
    /\ \A k \in (clientLen + 1)..Len(clientBacking) : clientBacking[k] = ""
    /\ \A i \in 1..Len(reqs) :
         reqs[i].pc = "done"
           => reqs[i].chain = SubSeq(clientBacking, 1, clientLen) \o reqs[i].mws

\* ---------------------------------------------------------------------
\* C17: on every attempt the transport is handed the encoded form
\* parameters when at least one is set, whatever body was set, and the body
\* that was set when no form parameter is.
\* ---------------------------------------------------------------------
FormSentWhenSet ==
    formParams # <<>>
    => \A i \in 1..Len(calls) : calls[i].hasBody /\ calls[i].body = formParams
BodySentWhenNoForm ==
    (formParams = <<>> /\ data.set)
    => \A i \in 1..Len(calls) : calls[i].hasBody /\ calls[i].body = data.bytes
C17_FormBeforeBody == FormSentWhenSet /\ BodySentWhenNoForm

\* ---------------------------------------------------------------------
\* C18: Send on a Request whose http.Request is still nil, or whose method
\* is the empty string, enters DoRequest with method GET, and Send returns
\* what DoRequest returned.
\* ---------------------------------------------------------------------
C18_SendDefaultsToGet ==
    [][ /\ (Send /\ (httpRequest.nil \/ httpRequest.method = ""))
           => (sendPc' = "doing" /\ doCall'.method = "GET")
        /\ (SendReturn /\ sendPc' = "returned")
           => sendResult' = doCall'.out ]_vars

\* ---------------------------------------------------------------------
\* C19: whatever the transport and the middlewares do (a middleware that
\* returns neither a Response nor an error, or both, included), the call of
\* DoRequest ends by returning exactly one non-nil value: a Response with a
\* nil error or a nil Response with an error.
\* ---------------------------------------------------------------------
ExactlyOneNonNil(pair) == (pair.resp = 0) <=> (pair.err # "nil")
EveryReturnExactlyOne == pc = "done" => ExactlyOneNonNil(result)
C19_ExactlyOneNonNil ==
    Terminated => (pc = "done" /\ ExactlyOneNonNil(result))

\* ---------------------------------------------------------------------
\* C20: when the call of DoRequest has ended, every Response produced during
\* it, by the transport or by a middleware, has been closed or is the one
\* returned to the caller; this includes the end by cancellation during the
\* wait and a middleware that returned both a Response and an error.
\* ---------------------------------------------------------------------
ClosedOrReturned(i) ==
    responses[i].closed >= 1 \/ (pc = "done" /\ result.resp = i)
NoneLeftOpenAtReturn ==
    pc = "done" => \A i \in 1..Len(responses) : ClosedOrReturned(i)
C20_NoResponseLeftOpen ==
    Terminated => \A i \in 1..Len(responses) : ClosedOrReturned(i)

\* ---------------------------------------------------------------------
\* C21: every call of DoRequest eventually returns, whatever the retry
\* count, the interval and the retry predicate, when every transport call
\* returns and the timer fires or the context is cancelled; the attempt
\* counter grows by one on each iteration of the loop and never passes the
\* maximum.
\* ---------------------------------------------------------------------
AttemptsGrowToMax ==
    [][ /\ attempts' >= attempts
        /\ attempts' <= MaxAttempts(retryCount)
        /\ (pc = "loop" /\ pc' \in {"chain", "do"}) => attempts' = attempts + 1
        /\ (pc = "loop" /\ pc' = "final") => attempts = MaxAttempts(retryCount) ]_vars
EventuallyEnds == <>Terminated
C21_EventuallyReturns == <>(pc = "done")

====
